---- MODULE Spec2Model ----
(***************************************************************************)
(* Model of conduit-dashboard.py: the periodic fleet collector             *)
(* (stats_collector_loop / collect_stats), the per-host prober             *)
(* (get_vps_stats) with its two process-wide caches (docker_prefix_cache,  *)
(* vps_hw_cache), the JSON history file (load_history / save_history /     *)
(* cleanup_old_history) and the two read endpoints of DashboardHandler.    *)
(*                                                                         *)
(* Remote command output is an input of the program.  A captured text is   *)
(* modelled by its structure (tokens, '|'-separated fields, labelled       *)
(* quantities) and every parser below works on that structure the way the  *)
(* regular expression / conversion of the source works on the characters.  *)
(* Python floats are modelled by exact rationals <<num, den>>.             *)
(***************************************************************************)
EXTENDS Integers, Sequences, FiniteSets, TLC

\* ------------------------------------------------------------ constants

REFRESH_INTERVAL == 15
HISTORY_DAYS == 2
SecondsPerDay == 86400
MaxWorkers == 5

\* Bounds of the model.
MaxCycles == 2      \* collection cycles explored per behaviour
MaxDelay == 1       \* seconds that may pass between two readings of the clock

RetentionWindow == HISTORY_DAYS * SecondsPerDay

\* The wall clock when the process starts (seconds since an arbitrary epoch).
StartTime == RetentionWindow + 10

\* ------------------------------------------------------------ small helpers

GCD[a \in Nat, b \in Nat] == IF b = 0 THEN a ELSE GCD[b, a % b]

Abs(n) == IF n < 0 THEN -n ELSE n

\* A Python float, as an exact rational in lowest terms with a positive denominator.
rat[n \in Int, d \in Int] ==
    LET g == GCD[Abs(n), Abs(d)]
        s == IF d < 0 THEN -1 ELSE 1
    IN  <<(s * n) \div g, (s * d) \div g>>
\* (a function, so that its arguments are values when it is applied)
Rat(n, d) == rat[n, d]

RZero == <<0, 1>>
RInt(n) == <<n, 1>>
RDiv(a, b) == Rat(a[1] * b[2], a[2] * b[1])
RMul(a, b) == Rat(a[1] * b[1], a[2] * b[2])
RLess(a, b) == a[1] * b[2] < b[1] * a[2]

\* round(x, 1): the nearest multiple of 1/10, ties to even.
Round1(x) ==
    LET n10 == x[1] * 10
        q == n10 \div x[2]
        r2 == 2 * (n10 % x[2])
        up == r2 > x[2] \/ (r2 = x[2] /\ q % 2 = 1)
    IN  Rat(IF up THEN q + 1 ELSE q, 10)

\* ------------------------------------------------------------ remote output

\* ssh_command's result: None, or the captured standard output.  A text is a
\* sequence (of tokens, of lines, of fields: see each parser); the empty text
\* "" is the empty sequence.
None == [none |-> TRUE]
Text(t) == [none |-> FALSE, text |-> t]
EmptyText == Text(<<>>)

\* What subprocess.run did (line 112): it raised (TimeoutExpired after
\* SSH_TIMEOUT, OSError), or the process ended with a return code and the
\* standard output captured: tokens, a "\n" standing for white space.
RunRaised == [raised |-> TRUE]
Completed(returncode, stdout) ==
    [raised |-> FALSE, returncode |-> returncode, stdout |-> stdout]

\* str.strip(): leading and trailing white space is dropped.
RECURSIVE LStrip(_)
LStrip(toks) ==
    IF toks # <<>> /\ Head(toks) = "\n" THEN LStrip(Tail(toks)) ELSE toks

RECURSIVE RStrip(_)
RStrip(toks) ==
    IF toks # <<>> /\ toks[Len(toks)] = "\n"
    THEN RStrip(SubSeq(toks, 1, Len(toks) - 1))
    ELSE toks

Strip(toks) == RStrip(LStrip(toks))

\* Lines 111-115: the stripped standard output whatever the return code,
\* None when subprocess.run raised.
ssh_command(result) ==
    IF result.raised THEN None ELSE Text(Strip(result.stdout))

\* Python truthiness of an Optional[str]: None and "" are falsy.
Truthy(r) == r # None /\ r.text # <<>>

\* What int() / float() / the digit patterns make of a quantity as written.
\*   digits : the value of the leading run of digits, -1 when there is none  (\d+)
\*   dotted : the whole quantity consists of digits and dots                 ([\d.]+)
\*   int    : int(q) when q is an optionally signed decimal integer, else "ValueError"
\*   num    : the first match of \d+(?:\.\d+)? anywhere in q, <<0, 0>> when none
\*   float  : float(q) as <<num, den>>, or <<0, 0>> for a ValueError
Quantities == {
    [q |-> "17",    digits |-> 17,  dotted |-> TRUE,  isint |-> TRUE,  int |-> 17,  num |-> <<17, 1>>, float |-> <<17, 1>>],
    [q |-> "226",   digits |-> 226, dotted |-> TRUE,  isint |-> TRUE,  int |-> 226, num |-> <<226, 1>>, float |-> <<226, 1>>],
    [q |-> "0",     digits |-> 0,   dotted |-> TRUE,  isint |-> TRUE,  int |-> 0,   num |-> <<0, 1>>, float |-> <<0, 1>>],
    [q |-> "4",     digits |-> 4,   dotted |-> TRUE,  isint |-> TRUE,  int |-> 4,   num |-> <<4, 1>>, float |-> <<4, 1>>],
    [q |-> "-2",    digits |-> -1,  dotted |-> FALSE, isint |-> TRUE,  int |-> -2,  num |-> <<2, 1>>, float |-> <<-2, 1>>],
    [q |-> "100",   digits |-> 100, dotted |-> TRUE,  isint |-> TRUE,  int |-> 100, num |-> <<100, 1>>, float |-> <<100, 1>>],
    [q |-> "250",   digits |-> 250, dotted |-> TRUE,  isint |-> TRUE,  int |-> 250, num |-> <<250, 1>>, float |-> <<250, 1>>],
    [q |-> "238",   digits |-> 238, dotted |-> TRUE,  isint |-> TRUE,  int |-> 238, num |-> <<238, 1>>, float |-> <<238, 1>>],
    [q |-> "2048",  digits |-> 2048, dotted |-> TRUE, isint |-> TRUE,  int |-> 2048, num |-> <<2048, 1>>, float |-> <<2048, 1>>],
    [q |-> "1048576", digits |-> 1048576, dotted |-> TRUE, isint |-> TRUE, int |-> 1048576, num |-> <<1048576, 1>>, float |-> <<1048576, 1>>],
    [q |-> "8192",  digits |-> 8192, dotted |-> TRUE, isint |-> TRUE,  int |-> 8192, num |-> <<8192, 1>>, float |-> <<8192, 1>>],
    [q |-> "7.1",   digits |-> 7,   dotted |-> TRUE,  isint |-> FALSE, int |-> 0,   num |-> <<71, 10>>, float |-> <<71, 10>>],
    [q |-> "74.1",  digits |-> 74,  dotted |-> TRUE,  isint |-> FALSE, int |-> 0,   num |-> <<741, 10>>, float |-> <<741, 10>>],
    [q |-> "1.2.3", digits |-> 1,   dotted |-> TRUE,  isint |-> FALSE, int |-> 0,   num |-> <<12, 10>>, float |-> <<0, 0>>],
    [q |-> "abc",   digits |-> -1,  dotted |-> FALSE, isint |-> FALSE, int |-> 0,   num |-> <<0, 0>>, float |-> <<0, 0>>]
}

Qty(q) == CHOOSE e \in Quantities : e.q = q

FloatRaises(q) == Qty(q).float = <<0, 0>>

\* ------------------------------------------------------------ targets

\* Entries of conduit-vps.conf as parse_config returns them.  VpsA and VpsC
\* are two entries for the same endpoint (same user, address, port).
VpsA == [alias |-> "a", user |-> "root", ip |-> "10.0.0.1", port |-> "22",
         password |-> "-", comment |-> ""]
VpsB == [alias |-> "b", user |-> "root", ip |-> "10.0.0.2", port |-> "22",
         password |-> "pw", comment |-> "edge"]
VpsC == [alias |-> "c", user |-> "root", ip |-> "10.0.0.1", port |-> "22",
         password |-> "pw", comment |-> ""]
VpsD == [alias |-> "d", user |-> "root", ip |-> "10.0.0.4", port |-> "22",
         password |-> "-", comment |-> ""]
VpsE == [alias |-> "e", user |-> "root", ip |-> "10.0.0.5", port |-> "22",
         password |-> "-", comment |-> ""]
VpsF == [alias |-> "f", user |-> "root", ip |-> "10.0.0.6", port |-> "22",
         password |-> "-", comment |-> ""]

\* The target lists explored (the order of the file is kept by parse_config).
TargetLists == {<<VpsB, VpsA>>, <<VpsA, VpsC>>}

\* A target list longer than the pool of collect_stats.
LongList == <<VpsF, VpsA, VpsB, VpsD, VpsC, VpsE>>

Aliases == {"a", "b", "c", "d", "e", "f"}

\* Python's order on the alias strings.
AliasRank(a) ==
    CASE a = "a" -> 1 [] a = "b" -> 2 [] a = "c" -> 3 [] a = "d" -> 4
      [] a = "e" -> 5 [] a = "f" -> 6 [] OTHER -> 7

\* f"{user}@{ip}:{port}"
_vps_key(vps) == vps.user \o "@" \o vps.ip \o ":" \o vps.port

Keys == {_vps_key(v) : v \in {VpsA, VpsB, VpsC, VpsD, VpsE, VpsF}}

\* vps["password"] and vps["password"] != "-"
HasPassword(vps) == vps.password # "" /\ vps.password # "-"

\* f"{alias}-c1", f"{alias}-c2"
InstanceName(alias, n) == alias \o (IF n = 1 THEN "-c1" ELSE "-c2")

\* ------------------------------------------------------------ host snapshot

NA == <<"N/A">>

\* The dictionary get_vps_stats starts from.
DefaultStats(vps) ==
    [alias |-> vps.alias, ip |-> vps.ip, comment |-> vps.comment,
     online |-> FALSE,
     conduit_running |-> FALSE, conduit_uptime |-> NA,
     connections |-> 0, connecting |-> 0,
     conduit_up |-> NA, conduit_down |-> NA,
     conduit_up_gb |-> RZero, conduit_down_gb |-> RZero,
     conduit2_running |-> FALSE, conduit2_uptime |-> NA,
     connections2 |-> 0, connecting2 |-> 0,
     conduit2_up |-> NA, conduit2_down |-> NA,
     conduit2_up_gb |-> RZero, conduit2_down_gb |-> RZero,
     snowflake_running |-> FALSE, snowflake_uptime |-> NA,
     snowflake_clients |-> 0,
     torbridge_running |-> FALSE, torbridge_uptime |-> NA,
     torbridge_bootstrap |-> 0,
     cpu_percent |-> RZero, memory_mb |-> RZero, memory_percent |-> RZero,
     uptime |-> NA]

\* stats[k] = v, adding the key when it is absent.
SetKey(stats, k, v) ==
    [f \in DOMAIN stats \cup {k} |-> IF f = k THEN v ELSE stats[f]]

\* uptime.replace("up ", ""): a token "up" followed by a space is one that is
\* not the last token.
RECURSIVE ReplaceUp(_)
ReplaceUp(toks) ==
    IF toks = <<>> THEN <<>>
    ELSE IF Head(toks) = "up" /\ Len(toks) > 1 THEN ReplaceUp(Tail(toks))
    ELSE <<Head(toks)>> \o ReplaceUp(Tail(toks))

\* Whether the liveness check counts as failed.
LivenessFailed(uptime) == uptime = None

\* Lines 251-256.
ApplyLiveness(stats, uptime) ==
    IF LivenessFailed(uptime) THEN stats
    ELSE [stats EXCEPT !.online = TRUE, !.uptime = ReplaceUp(uptime.text)]

\* ------------------------------------------------------------ host facts

\* Faulty variant: the core count is taken as printed.
ParseCoresRaw(cores_out) ==
    IF Truthy(cores_out) /\ Len(cores_out.text) = 1 /\ Qty(cores_out.text[1]).isint
    THEN Qty(cores_out.text[1]).int
    ELSE 1

\* Lines 186-191: int((cores_out or "").strip()), 1 on a ValueError or a
\* result <= 0.  The output is a sequence of tokens.
ParseCores(cores_out) ==
    IF Truthy(cores_out) /\ Len(cores_out.text) = 1 /\ Qty(cores_out.text[1]).isint
    THEN (IF Qty(cores_out.text[1]).int <= 0 THEN 1 ELSE Qty(cores_out.text[1]).int)
    ELSE 1

\* The first token of the text in which \d+(?:\.\d+)? finds a match.
RECURSIVE FirstNumber(_)
FirstNumber(toks) ==
    IF toks = <<>> THEN <<0, 0>>
    ELSE IF Qty(Head(toks)).num # <<0, 0>> THEN Qty(Head(toks)).num
    ELSE FirstNumber(Tail(toks))

\* Lines 195-203: kB to MB, 0.0 when nothing matches or the result is <= 0.
ParseMemTotal(mem_kb_out) ==
    LET m == IF mem_kb_out = None THEN <<0, 0>> ELSE FirstNumber(mem_kb_out.text)
        mem_total_kb == IF m = <<0, 0>> THEN RZero ELSE m
        mem_total_mb == RDiv(mem_total_kb, RInt(1024))
    IN  IF ~RLess(RZero, mem_total_mb) THEN RZero ELSE mem_total_mb

\* Lines 259-262.
ApplyHardware(stats, hw) ==
    SetKey(SetKey(stats, "cpu_cores", hw.cpu_cores), "memory_total_mb", hw.mem_total_mb)

\* ------------------------------------------------------------ container listing

\* One line of `docker ps`: bar says whether the line holds a '|'; name is
\* what precedes the first '|', status the tokens of what follows it.
PsLine(name, status) == [bar |-> TRUE, name |-> name, status |-> status]
NoBarLine == [bar |-> FALSE, name |-> "", status |-> <<>>]

ParenTokens == {"(healthy)", "(0)"}

\* status.startswith('Up')
IsUp(status) == status # <<>> /\ Head(status) = "Up"

\* The tokens up to the first one that opens a parenthesis.
RECURSIVE UntilParen(_)
UntilParen(toks) ==
    IF toks = <<>> \/ Head(toks) \in ParenTokens THEN <<>>
    ELSE <<Head(toks)>> \o UntilParen(Tail(toks))

\* Lines 278-282: re.search(r'Up\s+(.+?)(?:\s+\(|$)', status) on a status
\* that starts with "Up": needs a token after "Up", takes that token whole
\* and goes on to the first " (" or the end.
UptimeOf(status) ==
    IF IsUp(status) /\ Len(status) > 1
    THEN <<status[2]>> \o UntilParen(SubSeq(status, 3, Len(status)))
    ELSE NA

\* Lines 272-295, for one line.
ApplyPsLine(stats, line) ==
    IF ~line.bar THEN stats
    ELSE LET is_up == IsUp(line.status)
             uptime_str == UptimeOf(line.status)
         IN  CASE line.name = "conduit" ->
                    [stats EXCEPT !.conduit_running = is_up, !.conduit_uptime = uptime_str]
               [] line.name = "conduit2" ->
                    [stats EXCEPT !.conduit2_running = is_up, !.conduit2_uptime = uptime_str]
               [] line.name = "snowflake" ->
                    [stats EXCEPT !.snowflake_running = is_up, !.snowflake_uptime = uptime_str]
               [] line.name = "tor-bridge" ->
                    [stats EXCEPT !.torbridge_running = is_up, !.torbridge_uptime = uptime_str]
               [] OTHER -> stats

RECURSIVE ApplyPsLines(_, _)
ApplyPsLines(stats, lines) ==
    IF lines = <<>> THEN stats
    ELSE ApplyPsLines(ApplyPsLine(stats, Head(lines)), Tail(lines))

\* Lines 270-295.
ApplyContainerInfo(stats, container_info) ==
    IF Truthy(container_info) THEN ApplyPsLines(stats, container_info.text) ELSE stats

\* ------------------------------------------------------------ log lines

\* A log line is a sequence of labelled quantities "label: q unit".
Seg(label, q, unit) == [label |-> label, q |-> q, unit |-> unit]

\* What a parsing step of get_vps_stats yields: the updated dictionary, or an
\* exception that leaves the function.
Ok(stats) == [raised |-> FALSE, stats |-> stats]
Raised(stats) == [raised |-> TRUE, stats |-> stats]

\* re.search(r'<label>:\s*(\d+)', line): the first place where the label is
\* followed by digits; -1 when there is none.
RECURSIVE LabelledCount(_, _)
LabelledCount(segs, label) ==
    IF segs = <<>> THEN -1
    ELSE IF Head(segs).label = label /\ Qty(Head(segs).q).digits >= 0
         THEN Qty(Head(segs).q).digits
         ELSE LabelledCount(Tail(segs), label)

\* re.search(r'<label>:\s*([\d.]+)\s*(<units>)', line): the first place where
\* the label is followed by digits and dots and one of the units; <<>> when
\* there is none.
RECURSIVE LabelledAmount(_, _, _)
LabelledAmount(segs, label, units) ==
    IF segs = <<>> THEN <<>>
    ELSE IF Head(segs).label = label /\ Qty(Head(segs).q).dotted /\ Head(segs).unit \in units
         THEN <<Head(segs)>>
         ELSE LabelledAmount(Tail(segs), label, units)

ByteUnits == {"GB", "MB", "KB"}

\* Lines 313-324: the quantity in GB.
ToGB(val, unit) ==
    CASE unit = "KB" -> RDiv(RDiv(val, RInt(1024)), RInt(1024))
      [] unit = "MB" -> RDiv(val, RInt(1024))
      [] OTHER -> val

\* f"{val:.1f} <unit>"
Display(val, unit) == <<Round1(val), unit>>

\* The keys of the two tunnel instances.
TunnelKeys(n) ==
    IF n = 1
    THEN [running |-> "conduit_running", connecting |-> "connecting", connections |-> "connections",
          up |-> "conduit_up", up_gb |-> "conduit_up_gb",
          down |-> "conduit_down", down_gb |-> "conduit_down_gb"]
    ELSE [running |-> "conduit2_running", connecting |-> "connecting2", connections |-> "connections2",
          up |-> "conduit2_up", up_gb |-> "conduit2_up_gb",
          down |-> "conduit2_down", down_gb |-> "conduit2_down_gb"]

\* Lines 300-339 (instance 1) and 344-379 (instance 2): the four fields are
\* looked for one after the other; float() of a quantity such as "1.2.3"
\* raises ValueError, which nothing in get_vps_stats catches.
ApplyTunnelStats(stats, stats_line, n) ==
    IF ~Truthy(stats_line) THEN Ok(stats)
    ELSE
    LET k == TunnelKeys(n)
        segs == stats_line.text
        connecting == LabelledCount(segs, "Connecting")
        connected == LabelledCount(segs, "Connected")
        up == LabelledAmount(segs, "Up", ByteUnits)
        down == LabelledAmount(segs, "Down", ByteUnits)
        s1 == IF connecting >= 0 THEN [stats EXCEPT ![k.connecting] = connecting] ELSE stats
        s2 == IF connected >= 0 THEN [s1 EXCEPT ![k.connections] = connected] ELSE s1
        s3 == IF up # <<>>
              THEN [s2 EXCEPT ![k.up_gb] = ToGB(Qty(up[1].q).float, up[1].unit),
                              ![k.up] = Display(Qty(up[1].q).float, up[1].unit)]
              ELSE s2
        s4 == IF down # <<>>
              THEN [s3 EXCEPT ![k.down_gb] = ToGB(Qty(down[1].q).float, down[1].unit),
                              ![k.down] = Display(Qty(down[1].q).float, down[1].unit)]
              ELSE s3
    IN  IF up # <<>> /\ FloatRaises(up[1].q) THEN Raised(s2)
        ELSE IF down # <<>> /\ FloatRaises(down[1].q) THEN Raised(s3)
        ELSE Ok(s4)

\* Lines 387-391: int(snowflake_log.strip()), a ValueError is swallowed.
ApplySnowflake(stats, snowflake_log) ==
    IF Truthy(snowflake_log) /\ Len(snowflake_log.text) = 1
       /\ Qty(snowflake_log.text[1]).isint
    THEN [stats EXCEPT !.snowflake_clients = Qty(snowflake_log.text[1]).int]
    ELSE stats

\* re.search(r'Bootstrapped (\d+)%', tor_log): -1 when there is no match.
RECURSIVE BootstrapMatch(_)
BootstrapMatch(segs) ==
    IF segs = <<>> THEN -1
    ELSE IF /\ Head(segs).label = "Bootstrapped" /\ Head(segs).unit = "%"
            /\ Qty(Head(segs).q).isint /\ Qty(Head(segs).q).digits >= 0
         THEN Qty(Head(segs).q).digits
         ELSE BootstrapMatch(Tail(segs))

\* Lines 397-400.
ApplyTorBridge(stats, tor_log) ==
    IF Truthy(tor_log) /\ BootstrapMatch(tor_log.text) >= 0
    THEN [stats EXCEPT !.torbridge_bootstrap = BootstrapMatch(tor_log.text)]
    ELSE stats

\* ------------------------------------------------------------ resource usage

MemUnits == {"KiB", "MiB", "GiB", "KB", "MB", "GB"}

\* Lines 429-434: the used memory in MB.
ToMB(mem_val, unit) ==
    CASE unit \in {"KiB", "KB"} -> RDiv(mem_val, RInt(1024))
      [] unit \in {"GiB", "GB"} -> RMul(mem_val, RInt(1024))
      [] OTHER -> mem_val

\* The key when present and truthy, else the default  (stats.get(k) or d).
GetOr(stats, k, zero, d) ==
    IF k \in DOMAIN stats /\ stats[k] # zero THEN stats[k] ELSE d

\* Faulty variant: the CPU percentage is capped at 100.
ApplyCpuCapped(stats, part) ==
    IF Len(part) = 1 /\ part[1].unit \in {"%", ""} /\ Qty(part[1].q).float # <<0, 0>>
    THEN LET cpu == RDiv(Qty(part[1].q).float,
                         RInt(IF "cpu_cores" \in DOMAIN stats THEN stats.cpu_cores ELSE 1))
         IN  [stats EXCEPT !.cpu_percent =
                 IF RLess(cpu, RZero) THEN RZero
                 ELSE IF RLess(RInt(100), cpu) THEN RInt(100) ELSE cpu]
    ELSE stats

\* Lines 412-419: raw CPU% over the core count, raised to 0 when negative; a
\* ValueError of float() leaves the field alone.  parts[0] is one quantity
\* with its "%"; anything else does not parse.
ApplyCpu(stats, part) ==
    IF Len(part) = 1 /\ part[1].unit \in {"%", ""} /\ ~FloatRaises(part[1].q)
    THEN LET raw_cpu == Qty(part[1].q).float
             cores == GetOr(stats, "cpu_cores", 0, 1)
             cpu == RDiv(raw_cpu, RInt(cores))
         IN  [stats EXCEPT !.cpu_percent = IF RLess(cpu, RZero) THEN RZero ELSE cpu]
    ELSE stats

\* Faulty variant: the percentage is stored as computed.
NoClamp(pct) == pct

\* Clamp of lines 441-444.
ClampPercent(pct) ==
    IF RLess(pct, RZero) THEN RZero
    ELSE IF RLess(RInt(100), pct) THEN RInt(100)
    ELSE pct

\* Lines 423-445: the first quantity with a memory unit in parts[1].
ApplyMemory(stats, part) ==
    LET mem_match == LabelledAmount(part, "", MemUnits)
    IN  IF mem_match = <<>> THEN Ok(stats)
        ELSE IF FloatRaises(mem_match[1].q) THEN Raised(stats)
        ELSE LET used_mb == ToMB(Qty(mem_match[1].q).float, mem_match[1].unit)
                 total_mb == GetOr(stats, "memory_total_mb", RZero, RZero)
                 s1 == [stats EXCEPT !.memory_mb = Round1(used_mb)]
             IN  IF RLess(RZero, total_mb)
                 THEN Ok([s1 EXCEPT !.memory_percent =
                              ClampPercent(RMul(RDiv(used_mb, total_mb), RInt(100)))])
                 ELSE Ok(s1)

\* Lines 408-445: docker_stats split on "|".
ApplyDockerStats(stats, docker_stats) ==
    IF Truthy(docker_stats) /\ Len(docker_stats.text) >= 2
    THEN ApplyMemory(ApplyCpu(stats, docker_stats.text[1]), docker_stats.text[2])
    ELSE Ok(stats)

\* ------------------------------------------------------------ privilege strategy

\* The three invocation prefixes of get_docker_prefix.
Direct == ""
SudoN == "sudo -n "
SudoS(vps) == "echo '" \o vps.password \o "' | sudo -S -p '' "

\* probe and probe.strip() == "OK"
ProbeOK(probe) == Truthy(probe) /\ probe.text = <<"OK">>

\* Lines 136-154: which of the three probes are issued, given what each would
\* answer, and the prefix that results.
ProbesIssued(vps, probe, probe2, probe3) ==
    IF ProbeOK(probe) THEN 1
    ELSE IF ProbeOK(probe2) THEN 2
    ELSE IF HasPassword(vps) THEN 3
    ELSE 2

\* Faulty variant: passwordless sudo is preferred to plain docker.
DiscoverPrefixSudoFirst(vps, probe, probe2, probe3) ==
    IF ProbeOK(probe2) THEN SudoN
    ELSE IF ProbeOK(probe) THEN Direct
    ELSE IF HasPassword(vps) /\ ProbeOK(probe3) THEN SudoS(vps)
    ELSE Direct

\* Lines 136-154: the prefix that results.
DiscoverPrefix(vps, probe, probe2, probe3) ==
    IF ProbeOK(probe) THEN Direct
    ELSE IF ProbeOK(probe2) THEN SudoN
    ELSE IF HasPassword(vps) /\ ProbeOK(probe3) THEN SudoS(vps)
    ELSE Direct

\* ------------------------------------------------------------ history store

\* now.strftime("%Y-%m-%d %H:%M:%S"): the day and the time of day of a clock
\* reading given in seconds.
FullTimestamp(t) ==
    <<t \div SecondsPerDay, (t % SecondsPerDay) \div 3600, (t % 3600) \div 60, t % 60>>

\* now.strftime("%H:%M:%S")
ShortTimestamp(t) == <<(t % SecondsPerDay) \div 3600, (t % 3600) \div 60, t % 60>>

\* a >= b on two formatted timestamps (Python compares the strings, which
\* have fixed-width fields, position by position).
RECURSIVE StrGE(_, _)
StrGE(a, b) ==
    IF a = <<>> THEN TRUE
    ELSE IF Head(a) # Head(b) THEN Head(a) > Head(b)
    ELSE StrGE(Tail(a), Tail(b))

EmptyStore == [data |-> <<>>, vps_names |-> <<>>]

\* What HISTORY_FILE may hold besides a store: nothing (no file), text that
\* is not JSON, or JSON that is no store (here the JSON list []).
Absent == [file |-> "absent"]
NotJson == [file |-> "not json"]
JsonList == [file |-> "json list"]

IsStore(content) == DOMAIN content = {"data", "vps_names"}

\* Lines 47-53: whatever json.load returns is returned as it is; a missing
\* file and a JSONDecodeError give the empty store.
load_history(content) ==
    IF content = Absent \/ content = NotJson THEN EmptyStore ELSE content

\* Faulty variant: the comparison is strict, a point at the cutoff is dropped.
KeepAfter(data, cutoff_str) ==
    SelectSeq(data, LAMBDA d : d.time # cutoff_str /\ StrGE(d.time, cutoff_str))

\* Line 66, with cutoff_str the formatted cutoff.
KeepFrom(data, cutoff_str) == SelectSeq(data, LAMBDA d : StrGE(d.time, cutoff_str))

\* Lines 64-67, at clock reading t.
cleanup_old_history(history, t) ==
    [history EXCEPT !.data = KeepFrom(history.data, FullTimestamp(t - RetentionWindow))]

\* Faulty variant: the map is built from the instance list, running instances only.
RECURSIVE ConnectionsOfRunning(_)
ConnectionsOfRunning(stats_list) ==
    IF stats_list = <<>> THEN <<>>
    ELSE LET s == Head(stats_list)
             rest == ConnectionsOfRunning(Tail(stats_list))
             mine == (IF s.conduit_running THEN {InstanceName(s.alias, 1)} ELSE {})
                     \cup (IF s.conduit2_running THEN {InstanceName(s.alias, 2)} ELSE {})
         IN  [k \in DOMAIN rest \cup mine |->
                 IF k \in DOMAIN rest THEN rest[k]
                 ELSE IF k = InstanceName(s.alias, 2) THEN s.connections2
                 ELSE s.connections]

\* Lines 501-504: the connection counts of both tunnel instances of every
\* host; a later host of the list overwrites the entry of an earlier one.
ConnectionsData(stats_list) ==
    IF stats_list = <<>> THEN <<>>
    ELSE LET hosts == 1..Len(stats_list)
             Writes(i, k) == k \in {InstanceName(stats_list[i].alias, 1),
                                    InstanceName(stats_list[i].alias, 2)}
             Last(k) == CHOOSE i \in hosts :
                            Writes(i, k) /\ \A j \in hosts : Writes(j, k) => j <= i
         IN  [k \in {InstanceName(stats_list[i].alias, n) : i \in hosts, n \in {1, 2}} |->
                 IF k = InstanceName(stats_list[Last(k)].alias, 2)
                 THEN stats_list[Last(k)].connections2
                 ELSE stats_list[Last(k)].connections]

\* Line 511.
VpsNames(stats_list) ==
    [i \in 1..Len(stats_list) |-> InstanceName(stats_list[i].alias, 1)]
    \o [i \in 1..Len(stats_list) |-> InstanceName(stats_list[i].alias, 2)]

\* Faulty variant: the new point is put in front of the list.
PrependPoint(history, full_timestamp, stats_list) ==
    [data |-> <<[time |-> full_timestamp, connections |-> ConnectionsData(stats_list)]>>
              \o history.data,
     vps_names |-> VpsNames(stats_list)]

\* Lines 506-511.
AppendPoint(history, full_timestamp, stats_list) ==
    [data |-> Append(history.data,
                     [time |-> full_timestamp, connections |-> ConnectionsData(stats_list)]),
     vps_names |-> VpsNames(stats_list)]

\* ------------------------------------------------------------ aggregation

\* all_stats.sort(key=lambda x: x["alias"]): a stable sort.  An entry goes
\* after the entries of smaller alias and the earlier entries of equal alias.
SortByAlias(stats_list) ==
    IF stats_list = <<>> THEN <<>>
    ELSE LET hosts == 1..Len(stats_list)
             Before(j, i) ==
                 \/ AliasRank(stats_list[j].alias) < AliasRank(stats_list[i].alias)
                 \/ /\ AliasRank(stats_list[j].alias) = AliasRank(stats_list[i].alias)
                    /\ j < i
             Place(i) == Cardinality({j \in hosts : Before(j, i)}) + 1
         IN  [k \in hosts |-> stats_list[CHOOSE i \in hosts : Place(i) = k]]

\* Faulty variant: an entry for both instances of every host, running or not.
ConduitEntriesAll(s) ==
    <<[name |-> InstanceName(s.alias, 1), vps |-> s.alias, instance |-> 1,
       connections |-> s.connections, connecting |-> s.connecting,
       up_gb |-> s.conduit_up_gb, down_gb |-> s.conduit_down_gb],
      [name |-> InstanceName(s.alias, 2), vps |-> s.alias, instance |-> 2,
       connections |-> s.connections2, connecting |-> s.connecting2,
       up_gb |-> s.conduit2_up_gb, down_gb |-> s.conduit2_down_gb]>>

\* Lines 471-489, for one host.
ConduitEntries(s) ==
    (IF s.conduit_running
     THEN <<[name |-> InstanceName(s.alias, 1), vps |-> s.alias, instance |-> 1,
             connections |-> s.connections, connecting |-> s.connecting,
             up_gb |-> s.conduit_up_gb, down_gb |-> s.conduit_down_gb]>>
     ELSE <<>>)
    \o
    (IF s.conduit2_running
     THEN <<[name |-> InstanceName(s.alias, 2), vps |-> s.alias, instance |-> 2,
             connections |-> s.connections2, connecting |-> s.connecting2,
             up_gb |-> s.conduit2_up_gb, down_gb |-> s.conduit2_down_gb]>>
     ELSE <<>>)

\* Lines 468-489.
RECURSIVE ConduitsList(_)
ConduitsList(stats_list) ==
    IF stats_list = <<>> THEN <<>>
    ELSE ConduitEntries(Head(stats_list)) \o ConduitsList(Tail(stats_list))

\* ------------------------------------------------------------ state

VARIABLES
    config,              \* what conduit-vps.conf holds: the target list
    pc,                  \* where stats_collector_loop / collect_stats stands
    cycle,               \* calls of collect_stats so far
    now,                 \* the last reading of the wall clock
    vps_list,            \* collect_stats: the parsed target list
    w,                   \* one get_vps_stats call per target: [pc, stats, uptime, disc, prefix,
                         \* docker_stats, result (of the liveness command),
                         \* probes (the answers to the discovery probes issued),
                         \* checks (liveness commands issued), tor_log]
    all_stats,           \* collect_stats: the results gathered
    timestamp,           \* collect_stats: "%H:%M:%S" of line 464
    full_timestamp,      \* collect_stats: the timestamp of line 465
    conduits_list,       \* collect_stats: the flattened instance list
    current_stats,       \* the global published snapshot
    stats_lock,          \* who holds stats_lock
    docker_prefix_cache, \* identity -> prefix
    vps_hw_cache,        \* identity -> [cpu_cores, mem_total_mb]
    file,                \* what HISTORY_FILE holds
    history,             \* collect_stats: the store being written
    response,            \* what the last GET request was answered with
    discoveries,         \* per identity, discovery sequences started so far
    hw_probes,           \* per identity, times the two host-fact probes were issued
    outcome,             \* how the last call of collect_stats ended
    loaded,              \* what load_history returned to the last cycle
    committed,           \* the last content written to HISTORY_FILE in full
    snapshots            \* the snapshots built by the cycles so far

vars == <<config, pc, cycle, now, vps_list, w, all_stats, timestamp, full_timestamp,
          conduits_list, current_stats, stats_lock, docker_prefix_cache,
          vps_hw_cache, file, history, response, discoveries, hw_probes, outcome,
          loaded,
          committed, snapshots>>

collectorVars == <<config, pc, cycle, now, vps_list, all_stats, timestamp, full_timestamp,
                   conduits_list, history, outcome, loaded>>
publishedVars == <<current_stats, stats_lock, snapshots>>
cacheVars == <<docker_prefix_cache, vps_hw_cache, discoveries, hw_probes>>
fileVars == <<file, committed>>

\* current_stats as the module defines it (line 33).
InitialSnapshot == [vps |-> <<>>, timestamp |-> <<>>, conduits |-> <<>>]

\* A point written by an earlier run of the program.
OldPoint(t) == [time |-> FullTimestamp(t), connections |-> ("a-c1" :> 5 @@ "a-c2" :> 0)]

\* A store left by an earlier run: one point older than any cutoff of this
\* run, one that the first cycle finds at its cutoff, one for the second.
OldStore ==
    [data |-> <<OldPoint(StartTime - RetentionWindow - 1),
                OldPoint(StartTime - RetentionWindow + 1),
                OldPoint(StartTime - RetentionWindow + REFRESH_INTERVAL + 2)>>,
     vps_names |-> <<"a-c1", "a-c2">>]

InitialFiles == {Absent, NotJson, JsonList, OldStore}

InitWith(configs, files) ==
    /\ config \in configs
    /\ pc = "loop"
    /\ cycle = 0
    /\ now = StartTime
    /\ vps_list = <<>>
    /\ w = <<>>
    /\ all_stats = <<>>
    /\ timestamp = <<>>
    /\ full_timestamp = <<>>
    /\ conduits_list = <<>>
    /\ current_stats = InitialSnapshot
    /\ stats_lock = "free"
    /\ docker_prefix_cache = [k \in {} |-> Direct]
    /\ vps_hw_cache = [k \in {} |-> [cpu_cores |-> 1, mem_total_mb |-> RZero]]
    /\ file \in files
    /\ history = EmptyStore
    /\ response = [kind |-> "none"]
    /\ discoveries = [k \in Keys |-> 0]
    /\ hw_probes = [k \in Keys |-> 0]
    /\ outcome = "none"
    /\ loaded = EmptyStore
    /\ committed = file
    /\ snapshots = {}

\* ------------------------------------------------------------ the prober

Workers == DOMAIN w

\* Faulty variant: a task counts as over only when its result has been taken.
FinishedAndTaken(i) == w[i].pc = "collected"

Finished(i) == w[i].pc \in {"done", "raised", "collected"}
Running(i) == w[i].pc \notin {"queued", "done", "raised", "collected"}

\* The docker commands of get_vps_stats, in the order of the source.
DockerPcs == {"ps", "logs1", "logs2", "snow", "tor", "stats"}

\* Faulty variant: every docker command is issued, whatever the listing says.
NextPcAll(cur, stats) ==
    CASE cur = "ps" -> "logs1" [] cur = "logs1" -> "logs2" [] cur = "logs2" -> "snow"
      [] cur = "snow" -> "tor" [] cur = "tor" -> "stats" [] OTHER -> "done"

\* The command that follows `cur`, given the running flags of the listing.
NextPc(cur, stats) ==
    LET rank == [p \in DockerPcs |->
                    CASE p = "ps" -> 1 [] p = "logs1" -> 2 [] p = "logs2" -> 3
                      [] p = "snow" -> 4 [] p = "tor" -> 5 [] OTHER -> 6]
        wanted == [p \in DockerPcs |->
                    CASE p = "logs1" -> stats.conduit_running
                      [] p = "logs2" -> stats.conduit2_running
                      [] p = "snow" -> stats.snowflake_running
                      [] p = "tor" -> stats.torbridge_running
                      [] OTHER -> TRUE]
        later == {p \in DockerPcs : rank[p] > rank[cur] /\ wanted[p]}
    IN  IF later = {} THEN "done"
        ELSE CHOOSE p \in later : \A q \in later : rank[p] <= rank[q]

\* What get_vps_stats does with the output of the docker command `cur`.
ApplyOutput(cur, stats, out) ==
    CASE cur = "ps" -> Ok(ApplyContainerInfo(stats, out))
      [] cur = "logs1" -> ApplyTunnelStats(stats, out, 1)
      [] cur = "logs2" -> ApplyTunnelStats(stats, out, 2)
      [] cur = "snow" -> Ok(ApplySnowflake(stats, out))
      [] cur = "tor" -> Ok(ApplyTorBridge(stats, out))
      [] OTHER -> ApplyDockerStats(stats, out)

\* The worker after the docker command `w[i].pc` has answered `out` and the
\* parsing of the answer has ended with result r.
AfterCommand(i, prefix, out, r) ==
    [w[i] EXCEPT !.stats = r.stats, !.disc = FALSE, !.prefix = prefix,
                 !.docker_stats = IF w[i].pc = "stats" THEN out ELSE @,
                 !.tor_log = IF w[i].pc = "tor" THEN out ELSE @,
                 !.pc = IF r.raised THEN "raised" ELSE NextPc(w[i].pc, r.stats)]

\* Faulty variant: an executor that starts every submitted task at once.
DispatchUnbounded(i) ==
    /\ i \in Workers
    /\ w[i].pc = "queued"
    /\ \A j \in Workers : j < i => w[j].pc # "queued"
    /\ w' = [w EXCEPT ![i].pc = "live"]
    /\ UNCHANGED <<collectorVars, publishedVars, cacheVars, fileVars, response>>

\* The executor starts the tasks in the order of submission, at most
\* max_workers at a time (line 456-457).
Dispatch(i) ==
    /\ i \in Workers
    /\ w[i].pc = "queued"
    /\ \A j \in Workers : j < i => w[j].pc # "queued"
    /\ Cardinality({j \in Workers : Running(j)}) < MaxWorkers
    /\ w' = [w EXCEPT ![i].pc = "live"]
    /\ UNCHANGED <<collectorVars, publishedVars, cacheVars, fileVars, response>>

\* Faulty variant: no early return, the probe goes on after a failed liveness check.
NoShortCircuit(uptime) == FALSE

\* Whether get_vps_stats returns right after the liveness check (line 252).
ShortCircuit(uptime) == LivenessFailed(uptime)

\* Faulty variant: a failed liveness check is tried again.
RetryLiveness == "live"

\* Where get_vps_stats goes after a failed liveness check: `return stats`
\* (line 253).
AfterFailedLiveness == "done"

\* Lines 251-256.
LivenessCheck(i, E) ==
    /\ i \in Workers
    /\ w[i].pc = "live"
    /\ \E result \in E.live : \E uptime \in {ssh_command(result)} :
         w' = [w EXCEPT ![i].result = result,
                        ![i].uptime = uptime,
                        ![i].checks = @ + 1,
                        ![i].stats = ApplyLiveness(@, uptime),
                        ![i].pc = IF ShortCircuit(uptime) THEN AfterFailedLiveness
                                  ELSE "hw"]
    /\ UNCHANGED <<collectorVars, publishedVars, cacheVars, fileVars, response>>

\* get_vps_hardware, lines 176-179: the lookup under vps_hw_lock.
HardwareLookup(i) ==
    /\ i \in Workers
    /\ w[i].pc = "hw"
    /\ LET key == _vps_key(vps_list[i])
       IN  IF key \in DOMAIN vps_hw_cache
           THEN w' = [w EXCEPT ![i].stats = ApplyHardware(@, vps_hw_cache[key]),
                               ![i].pc = "ps"]
           ELSE w' = [w EXCEPT ![i].pc = "hwprobe"]
    /\ UNCHANGED <<collectorVars, publishedVars, cacheVars, fileVars, response>>

\* get_vps_hardware, lines 182-208: the two probes, then the store under the lock.
HardwareProbe(i, E) ==
    /\ i \in Workers
    /\ w[i].pc = "hwprobe"
    /\ \E cores_out \in E.cores, mem_kb_out \in E.mem :
         LET key == _vps_key(vps_list[i])
             hw == [cpu_cores |-> ParseCores(cores_out),
                    mem_total_mb |-> ParseMemTotal(mem_kb_out)]
         IN  /\ vps_hw_cache' = (key :> hw) @@ vps_hw_cache
             /\ hw_probes' = [hw_probes EXCEPT ![key] = @ + 1]
             /\ w' = [w EXCEPT ![i].stats = ApplyHardware(@, hw), ![i].pc = "ps"]
    /\ UNCHANGED <<collectorVars, publishedVars, docker_prefix_cache, discoveries,
                   fileVars, response>>

\* Faulty variant: the lookup never finds an entry.
CacheNeverHit(key) == FALSE

\* Whether get_docker_prefix finds the identity in the cache (lines 131-133).
CacheHit(key) == key \in DOMAIN docker_prefix_cache

\* docker_command with the prefix cached: get_docker_prefix returns it under
\* the lock and the command runs (lines 131-133, 163-164).  Without an entry
\* the caller leaves the lock and starts the discovery.
DockerCommand(i, E) ==
    /\ i \in Workers
    /\ w[i].pc \in DockerPcs
    /\ ~w[i].disc
    /\ LET key == _vps_key(vps_list[i])
       IN  IF CacheHit(key)
           THEN /\ \E out \in E[w[i].pc] :
                   \E r \in {ApplyOutput(w[i].pc, w[i].stats, out)} :
                     w' = [w EXCEPT ![i] = AfterCommand(i, docker_prefix_cache[key], out, r)]
                /\ UNCHANGED discoveries
           ELSE /\ w' = [w EXCEPT ![i].disc = TRUE]
                /\ discoveries' = [discoveries EXCEPT ![key] = @ + 1]
    /\ UNCHANGED <<collectorVars, publishedVars, docker_prefix_cache, vps_hw_cache,
                   hw_probes, fileVars, response>>

\* get_docker_prefix, lines 136-158: the probes, the store under the lock,
\* then the command with the prefix just computed (line 164).
Discover(i, E) ==
    /\ i \in Workers
    /\ w[i].pc \in DockerPcs
    /\ w[i].disc
    /\ \E probe \in E.probe, probe2 \in E.probe, probe3 \in E.probe, out \in E[w[i].pc] :
       \E r \in {ApplyOutput(w[i].pc, w[i].stats, out)} :
         LET key == _vps_key(vps_list[i])
             prefix == DiscoverPrefix(vps_list[i], probe, probe2, probe3)
         IN  /\ docker_prefix_cache' = (key :> prefix) @@ docker_prefix_cache
             /\ w' = [w EXCEPT ![i] =
                        [AfterCommand(i, prefix, out, r) EXCEPT !.probes =
                            SubSeq(<<probe, probe2, probe3>>, 1,
                                   ProbesIssued(vps_list[i], probe, probe2, probe3))]]
    /\ UNCHANGED <<collectorVars, publishedVars, vps_hw_cache, discoveries, hw_probes,
                   fileVars, response>>

\* ------------------------------------------------------------ the collector

\* Faulty variant: the entry of a probe starts from the bootstrap percentage
\* that the published snapshot shows for the host.
NewWorkerCarry(vps) ==
    LET shown == {current_stats.vps[j].torbridge_bootstrap :
                    j \in {k \in 1..Len(current_stats.vps) :
                             current_stats.vps[k].alias = vps.alias}}
    IN  [pc |-> "queued",
         stats |-> [DefaultStats(vps) EXCEPT
                      !.torbridge_bootstrap = IF shown = {} THEN 0 ELSE CHOOSE b \in shown : TRUE],
         uptime |-> None, disc |-> FALSE, prefix |-> Direct, docker_stats |-> None,
         result |-> RunRaised, probes |-> <<>>, checks |-> 0, tor_log |-> None]

\* Line 457: the task submitted for one target, not yet started; its entry
\* is the dictionary of defaults that get_vps_stats begins with (lines 212-248).
NewWorker(vps) ==
    [pc |-> "queued", stats |-> DefaultStats(vps), uptime |-> None,
     disc |-> FALSE, prefix |-> Direct, docker_stats |-> None, result |-> RunRaised,
     probes |-> <<>>, checks |-> 0, tor_log |-> None]

\* Faulty variant: the exception is not caught and ends the collector thread.
OnExceptionDie == "dead"

\* Where the loop goes when collect_stats raises (lines 525-527): the
\* exception is printed and the loop sleeps.
OnException == "sleep"

\* Faulty variant: collect_stats is started by a timer, whether or not the
\* call before it has returned.
StartCycleOnTimer(E) ==
    /\ pc \in {"loop", "save_open"}
    /\ cycle < E.cycles
    /\ cycle' = cycle + 1
    /\ vps_list' = config
    /\ w' = [i \in 1..Len(config) |-> NewWorker(config[i])]
    /\ all_stats' = <<>>
    /\ pc' = "gather"
    /\ outcome' = "running"
    /\ UNCHANGED <<config, now, timestamp, full_timestamp, conduits_list, history, loaded,
                   publishedVars, cacheVars, fileVars, response>>

\* Lines 453-457: the target list is parsed and one task per target submitted.
StartCycle(E) ==
    /\ pc = "loop"
    /\ cycle < E.cycles
    /\ cycle' = cycle + 1
    /\ vps_list' = config
    /\ w' = [i \in 1..Len(config) |-> NewWorker(config[i])]
    /\ all_stats' = <<>>
    /\ pc' = "gather"
    /\ outcome' = "running"
    /\ UNCHANGED <<config, now, timestamp, full_timestamp, conduits_list, history, loaded,
                   publishedVars, cacheVars, fileVars, response>>

\* Line 453 when conduit-vps.conf cannot be opened: parse_config raises.
ConfigUnreadable(E) ==
    /\ pc = "loop"
    /\ cycle < E.cycles
    /\ cycle' = cycle + 1
    /\ pc' = OnException
    /\ outcome' = "failed"
    /\ UNCHANGED <<config, now, vps_list, w, all_stats, timestamp, full_timestamp,
                   conduits_list, history, loaded, publishedVars, cacheVars,
                   fileVars, response>>

\* Lines 458-459: as_completed yields a finished future; result() returns
\* its dictionary or re-raises its exception, which leaves the loop.
Gather(i) ==
    /\ pc = "gather"
    /\ i \in Workers
    /\ w[i].pc \in {"done", "raised"}
    /\ IF w[i].pc = "done"
       THEN /\ all_stats' = Append(all_stats, w[i].stats)
            /\ pc' = "gather"
       ELSE /\ all_stats' = all_stats
            /\ pc' = "unwind"
    /\ w' = [w EXCEPT ![i].pc = "collected"]
    /\ UNCHANGED <<config, cycle, now, vps_list, timestamp, full_timestamp, conduits_list,
                   history, outcome, loaded, publishedVars, cacheVars, fileVars,
                   response>>

\* Faulty variant: when a probe has raised, the results gathered so far are
\* published.
UnwindPublishing ==
    /\ pc = "unwind"
    /\ \A i \in Workers : Finished(i)
    /\ pc' = OnException
    /\ outcome' = "failed"
    /\ current_stats' = [current_stats EXCEPT !.vps = all_stats]
    /\ UNCHANGED <<config, cycle, now, vps_list, w, all_stats, timestamp, full_timestamp,
                   conduits_list, history, loaded, stats_lock, snapshots, cacheVars,
                   fileVars, response>>

\* Leaving the `with ThreadPoolExecutor` block on an exception waits for the
\* tasks still queued or running; then collect_stats raises.
Unwind ==
    /\ pc = "unwind"
    /\ \A i \in Workers : Finished(i)
    /\ pc' = OnException
    /\ outcome' = "failed"
    /\ UNCHANGED <<config, cycle, now, vps_list, w, all_stats, timestamp, full_timestamp,
                   conduits_list, history, loaded, publishedVars, cacheVars,
                   fileVars, response>>

\* Faulty variant: the gathered results are published in completion order.
AggregateUnsorted(stats_list) == stats_list

\* The order in which collect_stats publishes the host list (line 461).
Aggregate(stats_list) == SortByAlias(stats_list)

\* Lines 461-491: every future has been gathered; sort, read the clock, build
\* the instance list and take stats_lock.
Build(E) ==
    /\ pc = "gather"
    /\ \A i \in Workers : w[i].pc = "collected"
    /\ stats_lock = "free"
    /\ \E d \in E.delay :
         /\ now' = now + d
         /\ timestamp' = ShortTimestamp(now')
         /\ full_timestamp' = FullTimestamp(now')
    /\ all_stats' = Aggregate(all_stats)
    /\ conduits_list' = ConduitsList(all_stats')
    /\ snapshots' = snapshots \cup
           {[vps |-> all_stats', timestamp |-> timestamp', conduits |-> conduits_list']}
    /\ stats_lock' = "collector"
    /\ pc' = "publish_vps"
    /\ UNCHANGED <<config, cycle, vps_list, w, history, outcome, loaded, current_stats,
                   cacheVars, fileVars, response>>

\* Line 492.
PublishVps ==
    /\ pc = "publish_vps"
    /\ current_stats' = [current_stats EXCEPT !.vps = all_stats]
    /\ pc' = "publish_timestamp"
    /\ UNCHANGED <<config, cycle, now, vps_list, w, all_stats, timestamp, full_timestamp,
                   conduits_list, history, outcome, loaded, stats_lock, snapshots,
                   cacheVars, fileVars, response>>

\* Line 493.
PublishTimestamp ==
    /\ pc = "publish_timestamp"
    /\ current_stats' = [current_stats EXCEPT !.timestamp = timestamp]
    /\ pc' = "publish_conduits"
    /\ UNCHANGED <<config, cycle, now, vps_list, w, all_stats, timestamp, full_timestamp,
                   conduits_list, history, outcome, loaded, stats_lock, snapshots,
                   cacheVars, fileVars, response>>

\* Faulty variant: the lock is not released when the swap is done.
PublishConduitsKeepLock ==
    /\ pc = "publish_conduits"
    /\ current_stats' = [current_stats EXCEPT !.conduits = conduits_list]
    /\ pc' = "history"
    /\ UNCHANGED <<config, cycle, now, vps_list, w, all_stats, timestamp, full_timestamp,
                   conduits_list, history, outcome, loaded, stats_lock, snapshots,
                   cacheVars, fileVars, response>>

\* Line 494 and the end of the `with stats_lock` block.
PublishConduits ==
    /\ pc = "publish_conduits"
    /\ current_stats' = [current_stats EXCEPT !.conduits = conduits_list]
    /\ stats_lock' = "free"
    /\ pc' = "history"
    /\ UNCHANGED <<config, cycle, now, vps_list, w, all_stats, timestamp, full_timestamp,
                   conduits_list, history, outcome, loaded, snapshots,
                   cacheVars, fileVars, response>>

\* Lines 497-511: the file is loaded, pruned at a fresh reading of the clock,
\* and the point of this cycle appended.  A loaded value that is no store
\* makes cleanup_old_history raise (history["data"]).
UpdateHistory(E) ==
    /\ pc = "history"
    /\ loaded' = load_history(file)
    /\ \E d \in E.delay : now' = now + d
    /\ IF IsStore(loaded')
       THEN /\ history' = AppendPoint(cleanup_old_history(loaded', now'),
                                      full_timestamp, all_stats)
            /\ pc' = "save_open"
            /\ outcome' = outcome
       ELSE /\ history' = history
            /\ pc' = OnException
            /\ outcome' = "failed"
    /\ UNCHANGED <<config, cycle, vps_list, w, all_stats, timestamp, full_timestamp,
                   conduits_list, publishedVars, cacheVars, fileVars, response>>

\* The empty file that open(HISTORY_FILE, "w") leaves, and any prefix of the
\* JSON text that json.dump has written so far: not a JSON document.
Partial == [file |-> "partial"]

\* Line 58: open(HISTORY_FILE, "w") truncates the file.
SaveOpen ==
    /\ pc = "save_open"
    /\ file' = Partial
    /\ pc' = "save_write"
    /\ UNCHANGED <<config, cycle, now, vps_list, w, all_stats, timestamp, full_timestamp,
                   conduits_list, history, outcome, loaded, committed,
                   publishedVars, cacheVars, response>>

\* Line 59 and the close of the file: the whole store is in the file.
SaveWrite ==
    /\ pc = "save_write"
    /\ file' = history
    /\ committed' = history
    /\ pc' = "sleep"
    /\ outcome' = "ok"
    /\ UNCHANGED <<config, cycle, now, vps_list, w, all_stats, timestamp, full_timestamp,
                   conduits_list, history, loaded, publishedVars, cacheVars,
                   response>>

\* Faulty variant: a failed write takes the snapshot of the cycle back.
SaveFailsRollsBack ==
    /\ \/ pc = "save_open"
       \/ pc = "save_write"
    /\ pc' = OnException
    /\ outcome' = "failed"
    /\ current_stats' = InitialSnapshot
    /\ UNCHANGED <<config, cycle, now, vps_list, w, all_stats, timestamp, full_timestamp,
                   conduits_list, history, loaded, stats_lock, snapshots, cacheVars,
                   fileVars, response>>

\* save_history raises OSError: open() is refused and the file is as it was,
\* or the write fails and leaves what had been written.
SaveFails ==
    /\ \/ pc = "save_open"
       \/ pc = "save_write"
    /\ pc' = OnException
    /\ outcome' = "failed"
    /\ UNCHANGED <<config, cycle, now, vps_list, w, all_stats, timestamp, full_timestamp,
                   conduits_list, history, loaded, publishedVars, cacheVars,
                   fileVars, response>>

\* Line 527: collect_stats has returned or raised, its local variables and
\* its executor are gone, and the loop sleeps REFRESH_INTERVAL seconds.
Sleep ==
    /\ pc = "sleep"
    /\ now' = now + REFRESH_INTERVAL
    /\ pc' = "loop"
    /\ vps_list' = <<>>
    /\ w' = <<>>
    /\ all_stats' = <<>>
    /\ timestamp' = <<>>
    /\ full_timestamp' = <<>>
    /\ conduits_list' = <<>>
    /\ history' = EmptyStore
    /\ loaded' = EmptyStore
    /\ UNCHANGED <<config, cycle, outcome, publishedVars, cacheVars, fileVars,
                   response>>

\* ------------------------------------------------------------ the readers

\* Faulty variant: the handler serializes current_stats without taking stats_lock.
CanReadUnlocked == TRUE

\* `with stats_lock:` of line 1055: the request waits while the lock is held.
CanRead == stats_lock = "free"

\* GET /api/stats, lines 1050-1056.
GetSnapshot ==
    /\ CanRead
    /\ response' = [kind |-> "stats", body |-> current_stats]
    /\ UNCHANGED <<collectorVars, w, publishedVars, cacheVars, fileVars>>

\* What load_history makes of the file as a reader finds it: a file being
\* written is not a JSON document.
ReadHistory(content) == load_history(IF content = Partial THEN NotJson ELSE content)

\* GET /api/history, lines 1057-1063.
GetHistory ==
    /\ response' = [kind |-> "history", body |-> ReadHistory(file)]
    /\ UNCHANGED <<collectorVars, w, publishedVars, cacheVars, fileVars>>

\* ------------------------------------------------------------ specifications

\* Remote outputs.
UptimeRun == Completed(0, <<"up", "3", "days", "\n">>)
UptimeOut == ssh_command(UptimeRun)
PsOut ==
    Text(<<PsLine("conduit", <<"Up", "3", "hours">>),
           PsLine("conduit2", <<"Exited", "(0)", "2", "days", "ago">>),
           NoBarLine>>)
StatsLine ==
    Text(<<Seg("Connecting", "17", ""), Seg("Connected", "226", ""),
           Seg("Up", "7.1", "GB"), Seg("Down", "74.1", "GB")>>)
BadStatsLine ==
    Text(<<Seg("Connecting", "17", ""), Seg("Connected", "226", ""),
           Seg("Up", "1.2.3", "GB")>>)
DockerStatsOut ==
    Text(<< <<Seg("", "250", "%")>>, <<Seg("", "238", "MiB"), Seg("", "7.1", "GiB")>> >>)
PsOut2 ==
    Text(<<PsLine("conduit2", <<"Up", "2", "days", "(healthy)">>),
           PsLine("snowflake", <<"Up">>),
           PsLine("tor-bridge", <<"Up", "3", "hours">>),
           PsLine("watchtower", <<"Up", "3", "hours">>)>>)

Prober(E) ==
    \/ \E i \in Workers : Dispatch(i)
    \/ \E i \in Workers : LivenessCheck(i, E)
    \/ \E i \in Workers : HardwareLookup(i)
    \/ \E i \in Workers : HardwareProbe(i, E)
    \/ \E i \in Workers : DockerCommand(i, E)
    \/ \E i \in Workers : Discover(i, E)

Collector(E) ==
    \/ StartCycle(E)
    \/ ConfigUnreadable(E)
    \/ \E i \in Workers : Gather(i)
    \/ Unwind
    \/ Build(E)
    \/ PublishVps
    \/ PublishTimestamp
    \/ PublishConduits
    \/ UpdateHistory(E)
    \/ SaveOpen
    \/ SaveWrite
    \/ SaveFails
    \/ Sleep

\* The fleet: two targets per list, hosts that answer or time out, a tunnel
\* log that parses or not, the clock read without delay.
FleetEnv ==
    [cycles |-> MaxCycles,
     delay |-> {0},
     live |-> {RunRaised, UptimeRun},
     cores |-> {Text(<<"4">>)},
     mem |-> {Text(<<"8192">>)},
     probe |-> {Text(<<"OK">>)},
     ps |-> {PsOut},
     logs1 |-> {StatsLine, BadStatsLine},
     logs2 |-> {StatsLine},
     snow |-> {Text(<<"17">>)},
     tor |-> {Text(<<Seg("Bootstrapped", "100", "%")>>)},
     stats |-> {DockerStatsOut}]

Init == InitWith(TargetLists, {Absent, OldStore})

Next ==
    \/ Collector(FleetEnv)
    \/ Prober(FleetEnv)
    \/ GetSnapshot

Spec == Init /\ [][Next]_vars

\* The history file: one target, every content the file may start with, the
\* clock moving between its readings, readers of /api/history.
HistoryEnv == [FleetEnv EXCEPT !.delay = 0..MaxDelay]

HistoryInit == InitWith({<<VpsA>>}, InitialFiles)

HistoryNext ==
    \/ Collector(HistoryEnv)
    \/ Prober(HistoryEnv)
    \/ GetHistory

HistorySpec == HistoryInit /\ [][HistoryNext]_vars

\* One host in detail: a liveness check that times out, prints nothing or
\* answers, every outcome of the discovery probes, two container listings.
\* A last "bootstrap" line of the tor log that reports no percentage done.
TorStuck == Text(<<Seg("bootstrapping", "0", "%")>>)

ProbeEnv ==
    [FleetEnv EXCEPT !.live = {RunRaised, Completed(255, <<>>), UptimeRun},
                     !.probe = {Text(<<"OK">>), Text(<<"FAIL">>)},
                     !.ps = {EmptyText, PsOut, PsOut2},
                     !.tor = {None, TorStuck, Text(<<Seg("Bootstrapped", "100", "%")>>)}]

ProbeInit == InitWith({<<VpsB>>, <<VpsA>>}, {Absent})

ProbeNext ==
    \/ Collector(ProbeEnv)
    \/ Prober(ProbeEnv)

ProbeSpec == ProbeInit /\ [][ProbeNext]_vars

\* Resource usage: one host, every outcome of the two host-fact probes (a
\* number, zero, a negative number, text, nothing, failure) and of `docker stats`.
StatsNegCpu ==
    Text(<< <<Seg("", "-2", "%")>>, <<Seg("", "2048", "KiB"), Seg("", "7.1", "GiB")>> >>)
StatsBigMem ==
    Text(<< <<Seg("", "abc", "%")>>, <<Seg("", "7.1", "GiB"), Seg("", "8192", "MiB")>> >>)
StatsBadMem ==
    Text(<< <<Seg("", "250", "%")>>, <<Seg("", "1.2.3", "MiB"), Seg("", "7.1", "GiB")>> >>)

MetricsEnv ==
    [FleetEnv EXCEPT !.live = {UptimeRun},
                     !.cores = {Text(<<"4">>), Text(<<"0">>), Text(<<"-2">>),
                                Text(<<"abc">>), EmptyText, None},
                     !.mem = {Text(<<"1048576">>), Text(<<"8192">>), Text(<<"0">>),
                              Text(<<"-2">>), Text(<<"abc">>), EmptyText, None},
                     !.logs1 = {StatsLine},
                     !.stats = {DockerStatsOut, StatsNegCpu, StatsBigMem, StatsBadMem, None}]

MetricsInit == InitWith({<<VpsA>>}, {Absent})

MetricsNext ==
    \/ Collector(MetricsEnv)
    \/ Prober(MetricsEnv)

MetricsSpec == MetricsInit /\ [][MetricsNext]_vars

\* Two entries of the target list for one endpoint, one of them with a
\* password: probes of both run at the same time, and a probe may fail.
RaceEnv ==
    [FleetEnv EXCEPT !.live = {UptimeRun},
                     !.cores = {Text(<<"4">>), None},
                     !.probe = {Text(<<"OK">>), Text(<<"FAIL">>)}]

RaceInit == InitWith({<<VpsA, VpsC>>}, {Absent})

RaceNext ==
    \/ Collector(RaceEnv)
    \/ Prober(RaceEnv)

RaceSpec == RaceInit /\ [][RaceNext]_vars

\* The collector thread and the pool threads are scheduled by the operating
\* system: a thread that can take a step eventually takes one.
\* The history file starts absent, with JSON of the wrong shape, or with a store.
LiveInit == InitWith({<<VpsA>>}, {Absent, JsonList, OldStore})

LiveNext ==
    \/ Collector(FleetEnv)
    \/ Prober(FleetEnv)

LiveSpec ==
    /\ LiveInit /\ [][LiveNext]_vars
    /\ WF_vars(Collector(FleetEnv))
    /\ WF_vars(Prober(FleetEnv))

\* A fleet larger than the pool: six targets, none of which answers, and one
\* call of collect_stats (every call makes a pool of its own, line 456).  The
\* steps listed are those of the collector and of the pool threads that such
\* a fleet can take; the threads are scheduled by the operating system.
PoolEnv == [FleetEnv EXCEPT !.cycles = 1, !.live = {RunRaised}]

PoolInit == InitWith({LongList}, {Absent})

PoolCollector ==
    \/ StartCycle(PoolEnv)
    \/ ConfigUnreadable(PoolEnv)
    \/ \E i \in Workers : Gather(i)
    \/ Build(PoolEnv)
    \/ PublishVps
    \/ PublishTimestamp
    \/ PublishConduits
    \/ UpdateHistory(PoolEnv)
    \/ SaveOpen
    \/ SaveWrite
    \/ SaveFails
    \/ Sleep

PoolProber ==
    \/ \E i \in Workers : Dispatch(i)
    \/ \E i \in Workers : LivenessCheck(i, PoolEnv)

PoolNext ==
    \/ PoolCollector
    \/ PoolProber

PoolSpec ==
    /\ PoolInit /\ [][PoolNext]_vars
    /\ WF_vars(PoolCollector)
    /\ WF_vars(PoolProber)

\* Two targets probed side by side, with hosts that time out and a log that
\* makes a probe raise, under the same scheduling of the threads.
WaitInit == InitWith({<<VpsA, VpsC>>}, {Absent})

WaitNext ==
    \/ Collector(FleetEnv)
    \/ Prober(FleetEnv)

WaitSpec ==
    /\ WaitInit /\ [][WaitNext]_vars
    /\ WF_vars(Collector(FleetEnv))
    /\ WF_vars(Prober(FleetEnv))

\* The instance list: two targets listed out of alias order, hosts that
\* answer or time out, and a listing with one or with both tunnel instances up.
PsBoth ==
    Text(<<PsLine("conduit", <<"Up", "3", "hours">>),
           PsLine("conduit2", <<"Up", "2", "days", "(healthy)">>)>>)

ListEnv == [FleetEnv EXCEPT !.ps = {PsOut, PsBoth}]

ListInit == InitWith({<<VpsB, VpsA>>}, {Absent})

ListNext ==
    \/ Collector(ListEnv)
    \/ Prober(ListEnv)

ListSpec == ListInit /\ [][ListNext]_vars

\* ------------------------------------------------------------ claims

HostsOf(snapshot) == {snapshot.vps[j] : j \in 1..Len(snapshot.vps)}

\* C1: a snapshot returned by GET /api/stats after a cycle has published
\* holds exactly one host entry for every target of the list, and the entries
\* are in ascending order of alias.
C1_SnapshotCoversTargetsSorted ==
    (response.kind = "stats" /\ response.body # InitialSnapshot) =>
        LET hosts == response.body.vps
        IN  /\ Len(hosts) = Len(config)
            /\ \A i \in 1..Len(config) :
                 Cardinality({j \in 1..Len(hosts) : hosts[j].alias = config[i].alias}) = 1
            /\ \A j \in 1..Len(hosts), k \in 1..Len(hosts) :
                 j < k => AliasRank(hosts[j].alias) <= AliasRank(hosts[k].alias)

\* C1 witness: the list names "b" before "a", both were probed, and the
\* snapshot read back starts with "a".
C1_Witness ==
    /\ config = <<VpsB, VpsA>>
    /\ response.kind = "stats"
    /\ Len(response.body.vps) = 2
    /\ response.body.vps[1].alias = "a"
    /\ response.body.vps[1].online

\* C2: whatever GET /api/stats returns is the initial empty snapshot or the
\* snapshot one cycle built after all its probes had finished: host list,
\* time label and instance list of the same cycle.
C2_SnapshotIsOneCycle ==
    response.kind = "stats" =>
        (response.body = InitialSnapshot \/ response.body \in snapshots)

\* C2 witness: a request answered while the second cycle is probing returns
\* the snapshot of the first cycle.
C2_Witness ==
    /\ cycle = 2
    /\ pc = "gather"
    /\ \E i \in Workers : Running(i)
    /\ response.kind = "stats"
    /\ response.body \in snapshots
    /\ response.body.vps # <<>>

\* C3: the discovery probe sequence runs at most once per connection identity.
C3_DiscoveryAtMostOnce == \A k \in Keys : discoveries[k] <= 1

\* C4: a liveness check without output (None or the empty text) gives the
\* host entry of an unreachable host: online false, everything else default.
C4_NoOutputIsUnreachable ==
    \A i \in Workers :
        (w[i].pc \notin {"queued", "live"} /\ ~Truthy(w[i].uptime)) =>
            w[i].stats = DefaultStats(vps_list[i])

\* C5: a host entry with online = false has all four running flags false,
\* every number 0 and every text "N/A".
Unreachable(s) ==
    /\ ~s.conduit_running /\ ~s.conduit2_running
    /\ ~s.snowflake_running /\ ~s.torbridge_running
    /\ s.connections = 0 /\ s.connecting = 0
    /\ s.connections2 = 0 /\ s.connecting2 = 0
    /\ s.snowflake_clients = 0 /\ s.torbridge_bootstrap = 0
    /\ s.conduit_up_gb = RZero /\ s.conduit_down_gb = RZero
    /\ s.conduit2_up_gb = RZero /\ s.conduit2_down_gb = RZero
    /\ s.cpu_percent = RZero /\ s.memory_mb = RZero /\ s.memory_percent = RZero
    /\ s.conduit_uptime = NA /\ s.conduit2_uptime = NA
    /\ s.snowflake_uptime = NA /\ s.torbridge_uptime = NA
    /\ s.conduit_up = NA /\ s.conduit_down = NA
    /\ s.conduit2_up = NA /\ s.conduit2_down = NA
    /\ s.uptime = NA
    /\ \A k \in {"cpu_cores", "memory_total_mb"} : k \notin DOMAIN s

C5_UnreachableHasDefaults ==
    /\ \A i \in Workers : ~w[i].stats.online => Unreachable(w[i].stats)
    /\ \A s \in HostsOf(current_stats) : ~s.online => Unreachable(s)

\* C5 witness: an unreachable host has been published.
C5_Witness ==
    /\ current_stats.vps # <<>>
    /\ \E s \in HostsOf(current_stats) : ~s.online /\ s.uptime = NA

\* The clock reading a formatted timestamp stands for.
Seconds(ts) == ts[1] * SecondsPerDay + ts[2] * 3600 + ts[3] * 60 + ts[4]

PointsOf(store) == {store.data[j] : j \in 1..Len(store.data)}

\* The cycle has just written the history file in full.
JustWritten == pc = "sleep" /\ outcome = "ok"

\* C6: right after the history write of a cycle (now is the clock as the
\* write read it) the file holds no point older than now minus the retention
\* window, and a point of the loaded store that lies exactly at that cutoff
\* is still in the file.
C6_RetentionAfterWrite ==
    JustWritten =>
        /\ IsStore(file)
        /\ \A p \in PointsOf(file) : Seconds(p.time) >= now - RetentionWindow
        /\ \A p \in PointsOf(loaded) :
             Seconds(p.time) = now - RetentionWindow => p \in PointsOf(file)

\* C6 witness: the write dropped a point older than the cutoff and kept one
\* that lies exactly at the cutoff.
C6_Witness ==
    /\ JustWritten
    /\ \E p \in PointsOf(loaded) :
         Seconds(p.time) = now - RetentionWindow /\ p \in PointsOf(file)
    /\ \E p \in PointsOf(loaded) :
         Seconds(p.time) < now - RetentionWindow /\ p \notin PointsOf(file)

\* C7: GET /api/history returns the store as last written in full or, while
\* a write is under way, the store that write is writing.
C7_HistoryReadBeforeOrAfter ==
    [][GetHistory =>
         \/ response'.body = ReadHistory(committed)
         \/ pc = "save_write" /\ response'.body = history]_vars

\* C8: GET /api/history always returns a store (a point list and a name
\* list): the file's store, or the empty store when the file holds no store.
C8_HistoryReadIsStore ==
    response.kind = "history" =>
        /\ IsStore(response.body)
        /\ (response.body # EmptyStore => response.body = file)

\* C9: a cycle that completes has written the loaded store without the
\* points older than the cutoff plus exactly one new point, stamped with the
\* time of the cycle; the point has an entry for both tunnel instances of
\* every reachable host, and for an unreachable host no entry or 0.
C9_CycleAddsOnePoint ==
    JustWritten =>
        LET kept == SelectSeq(loaded.data,
                              LAMBDA p : Seconds(p.time) >= now - RetentionWindow)
            point == file.data[Len(file.data)]
        IN  /\ IsStore(file)
            /\ file.data = Append(kept, point)
            /\ point.time = full_timestamp
            /\ \A j \in 1..Len(all_stats), n \in {1, 2} :
                 LET s == all_stats[j]
                     name == InstanceName(s.alias, n)
                 IN  IF s.online
                     THEN /\ name \in DOMAIN point.connections
                          /\ point.connections[name] =
                                (IF n = 1 THEN s.connections ELSE s.connections2)
                     ELSE name \in DOMAIN point.connections => point.connections[name] = 0

\* C9 witness: a completed cycle with a reachable host whose second instance
\* is stopped and an unreachable host, whose write pruned an old point.
C9_Witness ==
    /\ JustWritten
    /\ \E j \in 1..Len(all_stats) :
         all_stats[j].online /\ all_stats[j].connections > 0 /\ ~all_stats[j].conduit2_running
    /\ \E j \in 1..Len(all_stats) : ~all_stats[j].online
    /\ Len(file.data) <= Len(loaded.data)

\* C10: whatever happens in a cycle, the next cycle is started (as long as
\* the model lets cycles start).
C10_NextCycleStarts ==
    \A n \in 0..(MaxCycles - 1) : (cycle = n) ~> (cycle = n + 1)

\* C10 witness: the write of the first cycle failed half-way, and the second
\* cycle is running.
C10_Witness ==
    /\ cycle = 2
    /\ pc = "gather"
    /\ file = Partial

\* A docker command of worker i answers in this step with a prefix found in
\* the cache.
RunsCached(i) ==
    /\ i \in DOMAIN w /\ i \in DOMAIN w'
    /\ w[i].pc \in DockerPcs /\ ~w[i].disc
    /\ w'[i].pc # w[i].pc

\* C11: once an identity has a cached strategy, no resolver call for it
\* starts a discovery again, in this cycle or a later one, whatever the
\* commands run with that strategy answer; the entry stays, and every
\* command that runs then uses the cached strategy.
C11_CachedStrategyIsKept ==
    [][\A k \in DOMAIN docker_prefix_cache :
          /\ discoveries'[k] = discoveries[k]
          /\ k \in DOMAIN docker_prefix_cache'
          /\ \A i \in DOMAIN w :
                (RunsCached(i) /\ _vps_key(vps_list[i]) = k) =>
                    w'[i].prefix = docker_prefix_cache[k]]_vars

\* C11 witness: in the second cycle the container listing, run with the
\* strategy cached by the first cycle (sudo -n), has come back empty, and the
\* one discovery of the first cycle is still the only one.
C11_Witness ==
    /\ cycle = 2
    /\ current_stats.vps # <<>> /\ current_stats.vps[1].online
    /\ \E i \in Workers :
         /\ w[i].pc = "stats"
         /\ w[i].stats.online
         /\ ~w[i].stats.conduit_running /\ ~w[i].stats.conduit2_running
         /\ w[i].prefix = SudoN
         /\ docker_prefix_cache[_vps_key(vps_list[i])] = SudoN
         /\ discoveries[_vps_key(vps_list[i])] = 1

\* The fields of the entry of a reachable host: the defaults of lines 212-248
\* and the two host facts of lines 261-262.
HostFields == DOMAIN DefaultStats(VpsA) \cup {"cpu_cores", "memory_total_mb"}

\* C12: every host entry of the published snapshot has the same fields, the
\* core count and the total memory included, reachable or not.
C12_SameFieldsForEveryHost ==
    \A s \in HostsOf(current_stats) : DOMAIN s = HostFields

\* The used memory, in MB, that each `docker stats` answer states.
UsedMB(docker_stats) ==
    CASE docker_stats = DockerStatsOut -> <<238, 1>>      \* 238 MiB
      [] docker_stats = StatsNegCpu -> <<2, 1>>           \* 2048 KiB
      [] docker_stats = StatsBigMem -> <<36352, 5>>       \* 7.1 GiB = 7270.4 MB
      [] OTHER -> RZero

Parses(docker_stats) == docker_stats \in {DockerStatsOut, StatsNegCpu, StatsBigMem}

\* C13: the memory percentage of every host entry lies in [0, 100]; with a
\* total memory of 0 it is 0, the probe does not fail, and memory_mb is the
\* used quantity in MB; with a known total it is used / total * 100.
C13_MemoryPercentInRange ==
    /\ \A s \in HostsOf(current_stats) :
          ~RLess(s.memory_percent, RZero) /\ ~RLess(RInt(100), s.memory_percent)
    /\ \A i \in Workers :
          /\ ~RLess(w[i].stats.memory_percent, RZero)
          /\ ~RLess(RInt(100), w[i].stats.memory_percent)
          /\ Parses(w[i].docker_stats) =>
                /\ w[i].pc \in {"done", "collected"}
                /\ w[i].stats.memory_mb = UsedMB(w[i].docker_stats)
                /\ w[i].stats.memory_total_mb = RZero => w[i].stats.memory_percent = RZero
                /\ (w[i].stats.memory_total_mb = <<1024, 1>>
                       /\ w[i].docker_stats = DockerStatsOut) =>
                      w[i].stats.memory_percent = <<2975, 128>>

\* C13 witness: 238 MiB used on a host whose total memory is unknown.
C13_Witness ==
    \E i \in Workers :
        /\ w[i].pc = "done"
        /\ w[i].docker_stats = DockerStatsOut
        /\ w[i].stats.memory_total_mb = RZero
        /\ w[i].stats.memory_mb = <<238, 1>>
        /\ w[i].stats.memory_percent = RZero

PointPersisted(snapshot) ==
    /\ IsStore(file)
    /\ \E p \in PointsOf(file) : <<p.time[2], p.time[3], p.time[4]>> = snapshot.timestamp

\* C15: whenever GET /api/stats returns the snapshot of a cycle, the history
\* file already holds the point of that cycle.
C15_HistoryBeforeSnapshot ==
    (response.kind = "stats" /\ response.body # InitialSnapshot) =>
        PointPersisted(response.body)

\* C16: no call of get_vps_stats ends with an exception, whatever the remote
\* commands print, and no cycle fails because of a probe.
C16_ProbeNeverRaises ==
    /\ \A i \in Workers : w[i].pc # "raised"
    /\ pc # "unwind"

\* The remote invocation failed: no result, or a return code other than 0.
RunFailed(result) == result.raised \/ result.returncode # 0

\* C17: whenever the invocation of the liveness command fails (timeout,
\* transport error, non-zero exit), ssh_command returns None.
C17_FailureGivesNone ==
    \A i \in Workers :
        (w[i].pc \notin {"queued", "live"} /\ RunFailed(w[i].result)) =>
            w[i].uptime = None

\* The strategy tried by the n-th probe.
StrategyOf(n, vps) == CASE n = 1 -> Direct [] n = 2 -> SudoN [] OTHER -> SudoS(vps)

\* C18: the probes of a discovery are issued in the order plain docker,
\* sudo -n, sudo -S; none is issued after one answered OK; the third only for
\* a target with a password; the prefix resolved and cached is that of the
\* probe that answered OK, and plain docker when every probe issued failed.
C18_FirstSuccessfulStrategy ==
    \A i \in Workers :
        w[i].probes # <<>> =>
            LET p == w[i].probes
                n == Len(p)
                vps == vps_list[i]
            IN  /\ n <= 3
                /\ \A j \in 1..(n - 1) : p[j] # Text(<<"OK">>)
                /\ n = 3 => HasPassword(vps)
                /\ p[n] # Text(<<"OK">>) => n = (IF HasPassword(vps) THEN 3 ELSE 2)
                /\ w[i].prefix =
                      (IF p[n] = Text(<<"OK">>) THEN StrategyOf(n, vps) ELSE Direct)
                /\ docker_prefix_cache[_vps_key(vps)] = w[i].prefix

\* C18 witness: plain docker and sudo -n failed, sudo -S with the password of
\* the target answered OK.
C18_Witness ==
    \E i \in Workers :
        /\ Len(w[i].probes) = 3
        /\ w[i].probes[3] = Text(<<"OK">>)
        /\ w[i].prefix = SudoS(VpsB)
        /\ docker_prefix_cache[_vps_key(VpsB)] = SudoS(VpsB)

\* C19: an entry of docker_prefix_cache or of vps_hw_cache, once there, is
\* never removed and never changes.
C19_CacheEntriesNeverChange ==
    [][/\ \A k \in DOMAIN docker_prefix_cache :
             k \in DOMAIN docker_prefix_cache'
             /\ docker_prefix_cache'[k] = docker_prefix_cache[k]
       /\ \A k \in DOMAIN vps_hw_cache :
             k \in DOMAIN vps_hw_cache' /\ vps_hw_cache'[k] = vps_hw_cache[k]]_vars

\* The discovery of worker i ends in this step.
DiscoveryEnds(i) == i \in DOMAIN w /\ i \in DOMAIN w' /\ w[i].disc /\ ~w'[i].disc

\* C20: a discovery that ends when the identity already has an entry returns
\* that entry, not the prefix it computed.
C20_FirstWriterWins ==
    [][\A i \in DOMAIN w :
          (DiscoveryEnds(i) /\ CacheHit(_vps_key(vps_list[i]))) =>
              w'[i].prefix = docker_prefix_cache[_vps_key(vps_list[i])]]_vars

\* C21: the core-count and memory probes are issued at most once per
\* connection identity.
C21_HostFactsProbedOnce == \A k \in Keys : hw_probes[k] <= 1

\* C22: every entry of vps_hw_cache has at least 1 core and a total memory
\* that is not negative.
C22_HostFactsInRange ==
    \A k \in DOMAIN vps_hw_cache :
        /\ vps_hw_cache[k].cpu_cores >= 1
        /\ ~RLess(vps_hw_cache[k].mem_total_mb, RZero)

\* C22 witness: the probes gave nothing usable (only "4" gives a core count
\* other than 1, only a positive number a total other than 0).
C22_Witness ==
    \E k \in DOMAIN vps_hw_cache :
        /\ hw_probes[k] = 1
        /\ vps_hw_cache[k].cpu_cores = 1
        /\ vps_hw_cache[k].mem_total_mb = RZero

C24_OneProbePerTarget ==
    pc \in {"gather", "unwind"} =>
        /\ Len(w) = Len(config)
        /\ \A i \in Workers :
              /\ w[i].stats.alias = config[i].alias
              /\ w[i].checks = (IF w[i].pc \in {"queued", "live"} THEN 0 ELSE 1)

\* C24 witness: host "a" timed out in the first cycle, whose snapshot shows
\* it unreachable, and answers the one check of the second cycle.
C24_Witness ==
    /\ cycle = 2
    /\ \E s \in HostsOf(current_stats) : s.alias = "a" /\ ~s.online
    /\ \E i \in Workers :
         w[i].stats.alias = "a" /\ w[i].stats.online /\ w[i].checks = 1

\* The log-derived fields of the four services are at their defaults.
TunnelAtDefault(s, n) ==
    LET k == TunnelKeys(n)
    IN  /\ s[k.connecting] = 0 /\ s[k.connections] = 0
        /\ s[k.up] = NA /\ s[k.down] = NA
        /\ s[k.up_gb] = RZero /\ s[k.down_gb] = RZero

\* C25: a log query is under way only for a service that the container
\* listing of this probe showed running; the log-derived fields of a service
\* that is not running are the defaults.
C25_LogsOnlyOfRunningServices ==
    \A i \in Workers :
        LET s == w[i].stats
        IN  /\ w[i].pc = "logs1" => s.conduit_running
            /\ w[i].pc = "logs2" => s.conduit2_running
            /\ w[i].pc = "snow" => s.snowflake_running
            /\ w[i].pc = "tor" => s.torbridge_running
            /\ ~s.conduit_running => TunnelAtDefault(s, 1)
            /\ ~s.conduit2_running => TunnelAtDefault(s, 2)
            /\ ~s.snowflake_running => s.snowflake_clients = 0
            /\ ~s.torbridge_running => s.torbridge_bootstrap = 0 /\ w[i].tor_log = None

\* C25 witness: the listing showed conduit up and conduit2 exited; the probe
\* has read the log of conduit and is past the log queries.
C25_Witness ==
    \E i \in Workers :
        /\ w[i].pc = "stats"
        /\ w[i].stats.conduit_running /\ w[i].stats.connections = 226
        /\ ~w[i].stats.conduit2_running /\ w[i].stats.conduit2_uptime = NA
        /\ TunnelAtDefault(w[i].stats, 2)

\* The probes that a pool thread is running.
InFlight == {i \in Workers : Running(i)}

\* C26: at no time are more probes in flight than the pool has threads (5);
\* a target that waits for a thread is eventually probed.
C26_PoolBound ==
    /\ [](Cardinality(InFlight) <= MaxWorkers)
    /\ \A i \in 1..Len(LongList) :
          (i \in Workers /\ w[i].pc = "queued") ~> (i \in Workers /\ w[i].checks = 1)

\* C26 witness: five probes run and the sixth target waits.
C26_Witness ==
    /\ Cardinality(InFlight) = MaxWorkers
    /\ \E i \in Workers : w[i].pc = "queued"

\* The three assignments under stats_lock.
Swapping == pc \in {"publish_vps", "publish_timestamp", "publish_conduits"}

\* C27: the collector holds stats_lock only during the three assignments
\* that swap the snapshot in; while it probes, reads or writes the history
\* or sleeps the lock is free, the published snapshot is a whole one of an
\* earlier cycle (or the initial one), and a request answered then gets
\* that snapshot.
C27_LockOnlyWhileSwapping ==
    /\ [](stats_lock = "collector" => Swapping)
    /\ [](~Swapping => /\ CanRead
                       /\ current_stats \in snapshots \cup {InitialSnapshot})
    /\ [][(~Swapping /\ response' # response) =>
             (response'.kind = "stats" /\ response'.body = current_stats)]_vars

\* C27 witness: the second cycle has probes running, the lock is free and
\* the last request was answered with the snapshot the first cycle published.
C27_Witness ==
    /\ cycle = 2
    /\ pc = "gather"
    /\ \E i \in Workers : Running(i)
    /\ stats_lock = "free"
    /\ current_stats.timestamp # <<>>
    /\ response = [kind |-> "stats", body |-> current_stats]

\* The collector is between the swap and the end of the history write.
Persisting == pc \in {"history", "save_open", "save_write"}

\* C28: when loading, pruning or writing the history raises, the snapshot
\* of this cycle (its host list, time label and instance list) is the
\* published one, and the next cycle is started (as long as the model lets
\* cycles start).
C28_HistoryFailureKeepsSnapshot ==
    /\ [][(Persisting /\ outcome' = "failed") =>
             /\ current_stats' = [vps |-> all_stats, timestamp |-> timestamp,
                                  conduits |-> conduits_list]
             /\ pc' = "sleep"]_vars
    /\ \A n \in 1..(MaxCycles - 1) :
          (cycle = n /\ pc = "sleep" /\ outcome = "failed") ~> (cycle = n + 1)

\* C28 witness: the write of the first cycle failed half-way; the snapshot
\* of that cycle, with its host, is published and the collector sleeps.
C28_Witness ==
    /\ cycle = 1
    /\ pc = "sleep"
    /\ outcome = "failed"
    /\ file = Partial
    /\ all_stats # <<>>
    /\ current_stats = [vps |-> all_stats, timestamp |-> timestamp,
                        conduits |-> conduits_list]

\* C29: in the history file the time of every point is earlier than the
\* time of every point after it in the list.
C29_TimesStrictlyIncreasing ==
    IsStore(file) =>
        \A j, k \in 1..Len(file.data) :
            j < k => Seconds(file.data[j].time) < Seconds(file.data[k].time)

\* C29 witness: the file, which was not there at the start, holds the points
\* of two cycles.
C29_Witness ==
    /\ IsStore(file)
    /\ Len(file.data) = 2
    /\ \A p \in PointsOf(file) : Seconds(p.time) >= StartTime
    /\ file.data[2].time = full_timestamp

\* C30: the bootstrap percentage of the entry a probe is building is 100
\* when this probe read the line "Bootstrapped 100%" from the log of the
\* relay, and 0 in every other case, whatever the published snapshot shows.
C30_BootstrapOfThisCycle ==
    \A i \in Workers :
        w[i].stats.torbridge_bootstrap =
            (IF w[i].tor_log = Text(<<Seg("Bootstrapped", "100", "%")>>) THEN 100 ELSE 0)

\* C30 witness: the published snapshot of the first cycle shows 100; the
\* probe of the second cycle found the relay running and no line with a
\* percentage, and its entry has 0.
C30_Witness ==
    /\ cycle = 2
    /\ current_stats.vps # <<>>
    /\ current_stats.vps[1].torbridge_bootstrap = 100
    /\ \E i \in Workers :
         /\ w[i].pc = "done"
         /\ w[i].stats.alias = current_stats.vps[1].alias
         /\ w[i].stats.torbridge_running
         /\ w[i].tor_log = TorStuck
         /\ w[i].stats.torbridge_bootstrap = 0

\* The phase of the collector thread: between two calls of collect_stats,
\* gathering the probes, or publishing and persisting what it gathered.
Phase ==
    CASE pc \in {"loop", "sleep"} -> "Idle"
      [] pc \in {"gather", "unwind"} -> "Collecting"
      [] OTHER -> "Publishing"

\* C31: the collector passes Idle, Collecting, Publishing, Idle in that
\* order (from Collecting straight to Idle when the cycle fails); a cycle is
\* started only when the collector is idle and the cycle before has ended,
\* well or not; the history file is changed only by the collector in its
\* Publishing phase, when no probe of the cycle is left.
C31_OneCycleAtATime ==
    /\ [][Phase' # Phase =>
             <<Phase, Phase'>> \in {<<"Idle", "Collecting">>, <<"Collecting", "Publishing">>,
                                    <<"Publishing", "Idle">>, <<"Collecting", "Idle">>}]_vars
    /\ [][cycle' # cycle =>
             /\ cycle' = cycle + 1
             /\ Phase = "Idle"
             /\ outcome \in {"none", "ok", "failed"}]_vars
    /\ [][file' # file =>
             /\ pc \in {"save_open", "save_write"}
             /\ \A i \in Workers : w[i].pc = "collected"]_vars

\* C31 witness: the second cycle is writing the file that the first cycle
\* wrote in full.
C31_Witness ==
    /\ cycle = 2
    /\ pc = "save_write"
    /\ file = Partial
    /\ IsStore(committed)
    /\ \E p \in PointsOf(committed) : Seconds(p.time) >= StartTime

\* C32: a call of collect_stats that has started ends, by returning or by
\* raising, before another one starts; the collector does not stay for ever
\* in the wait for its probes.
C32_CycleEnds ==
    /\ (outcome = "running") ~> (outcome \in {"ok", "failed"})
    /\ [][cycle' # cycle => outcome # "running"]_vars
    /\ (Phase = "Collecting") ~> (Phase # "Collecting")

\* C32 witness: a probe has raised, the collector has left the gathering
\* loop and waits for the probe of the other target, which timed out and
\* whose result nobody will take.
C32_Witness ==
    /\ pc = "unwind"
    /\ \E i \in Workers : w[i].pc = "done" /\ ~w[i].stats.online
    /\ \E i \in Workers : w[i].pc = "collected" /\ w[i].stats.online

\* The tunnel instances that the host list of a snapshot shows running, as
\* pairs of the position of the host and the number of the instance.
RunningInstances(snapshot) ==
    {jn \in (1..Len(snapshot.vps)) \X {1, 2} :
        IF jn[2] = 1 THEN snapshot.vps[jn[1]].conduit_running
        ELSE snapshot.vps[jn[1]].conduit2_running}

\* Entry e of the instance list is the one of instance jn[2] of host jn[1].
EntryOf(snapshot, e, jn) ==
    LET s == snapshot.vps[jn[1]]
        c == snapshot.conduits[e]
    IN  /\ c.vps = s.alias
        /\ c.instance = jn[2]
        /\ c.name = InstanceName(s.alias, jn[2])
        /\ c.connections = (IF jn[2] = 1 THEN s.connections ELSE s.connections2)

\* C33: in the published snapshot (outside the three assignments of a swap,
\* which no reader sees) the instance list has as many entries as the host
\* list has running instances, every running instance has its entry with
\* the connection count of the host field, every entry is the one of a
\* running instance, and the entries are ordered by alias and, for one
\* host, by instance number.
C33_InstanceListMatchesHosts ==
    ~Swapping =>
        LET entries == 1..Len(current_stats.conduits)
            running == RunningInstances(current_stats)
        IN  /\ Len(current_stats.conduits) = Cardinality(running)
            /\ \A jn \in running : \E e \in entries : EntryOf(current_stats, e, jn)
            /\ \A e \in entries : \E jn \in running : EntryOf(current_stats, e, jn)
            /\ \A e, f \in entries :
                 e < f =>
                    LET c == current_stats.conduits[e]
                        d == current_stats.conduits[f]
                    IN  \/ AliasRank(c.vps) < AliasRank(d.vps)
                        \/ c.vps = d.vps /\ c.instance < d.instance

\* C33 witness: the published snapshot has host a with both instances up
\* and host b, first in the target list, with its second instance stopped;
\* the list is a-c1, a-c2, b-c1.
C33_Witness ==
    /\ ~Swapping
    /\ Len(current_stats.vps) = 2
    /\ current_stats.vps[1].conduit2_running
    /\ ~current_stats.vps[2].conduit2_running
    /\ Len(current_stats.conduits) = 3
    /\ current_stats.conduits[2].name = "a-c2"
    /\ current_stats.conduits[3].name = "b-c1"

\* C34: no step that the collector takes outside its Publishing phase
\* changes the published snapshot or the history file; so a call of
\* collect_stats that raises while it reads the target list or gathers the
\* probes, and never gets to that phase, ends with both as they were when
\* it started.
C34_FailedCycleChangesNothing ==
    /\ [][Phase # "Publishing" =>
             /\ current_stats' = current_stats
             /\ file' = file
             /\ committed' = committed]_vars
    /\ [][(Phase # "Publishing" /\ outcome' = "failed") =>
             /\ Phase' = "Idle"
             /\ current_stats' = current_stats
             /\ file' = file]_vars

\* C34 witness: in the second cycle a probe raised and the cycle failed
\* before it read the clock; the snapshot and the file are those that the
\* first cycle published and wrote.
C34_Witness ==
    /\ cycle = 2
    /\ pc = "sleep"
    /\ outcome = "failed"
    /\ Len(all_stats) < Len(w)
    /\ \E i \in Workers : w[i].stats.online
    /\ timestamp = <<>>
    /\ current_stats.vps # <<>>
    /\ current_stats.timestamp # <<>>
    /\ IsStore(file)
    /\ file = committed
    /\ Seconds(file.data[Len(file.data)].time) >= StartTime

====
